---- MODULE Spec2Model ----
(***************************************************************************)
(* GBEasy: a model of the patching pipeline of cli.py (overwrite_dll) and  *)
(* of the helpers of src/functions.py it calls: the release resolver, the  *)
(* downloader, the archive extractor and the tool provisioners.            *)
(*                                                                         *)
(* File names and paths are sequences of one-character strings, so that    *)
(* str.lower(), the substring test `in`, str.endswith(), Path.suffix and   *)
(* Path.with_suffix() are computed as Python computes them.                *)
(***************************************************************************)
EXTENDS Integers, Sequences, FiniteSets, TLC

VARIABLES
    fs,          \* the game tree: path -> [kind, data]
    output,      \* ./output: app_id -> the generator's output directory
    downloads,   \* DOWNLOAD_DIR: file name -> number of chunks on disk
    tools,       \* the sentinel files present under TOOLS_DIR
    pc,          \* the position of overwrite_dll
    run,         \* the number of runs started
    app_id,      \* overwrite_dll's app_id
    exe_list,    \* overwrite_dll's exe_list
    steam_dlls,  \* overwrite_dll's steam_dlls
    idx,         \* the index of the running for loop
    exitCode,    \* the exit status of the finished run (-1 while it runs)
    exitAt,      \* the place that ended the run
    preRun,      \* history: the game tree when the current run started
    preTools,    \* history: [downloads, tools] when the current run started
    log,         \* history: the writes of the current run into the game tree
    net,         \* history: the network calls of the current run
    lastDl,      \* history: the last download_file call of the current run
    unpacked,    \* history: exe path -> outcome of the unpacking tool on it
    generated,   \* history: target path -> outcome of the interfaces tool on it
    extFail,     \* history: an external call of the current run failed
    rq,          \* resolver alone: the arguments and the release's assets
    rres         \* resolver alone: what the resolver returned

vars == <<fs, output, downloads, tools, pc, run, app_id, exe_list,
          steam_dlls, idx, exitCode, exitAt, preRun, preTools, log, net,
          lastDl, unpacked, generated, extFail, rq, rres>>

(***************************************************************************)
(* Bounds of the model.                                                    *)
(***************************************************************************)
MaxRuns == 2      \* runs of the pipeline on the same tree
MaxChunks == 2    \* chunks of a complete download
MaxAssets == 2    \* assets of a release in the resolver check

(***************************************************************************)
(* Strings.                                                                *)
(***************************************************************************)
None == <<>>      \* Python's None and "" are both falsy

Truthy(s) == Len(s) > 0

UpperToLower ==
    ("A" :> "a") @@ ("B" :> "b") @@ ("C" :> "c") @@ ("D" :> "d") @@
    ("E" :> "e") @@ ("F" :> "f") @@ ("G" :> "g") @@ ("H" :> "h") @@
    ("I" :> "i") @@ ("J" :> "j") @@ ("K" :> "k") @@ ("L" :> "l") @@
    ("M" :> "m") @@ ("N" :> "n") @@ ("O" :> "o") @@ ("P" :> "p") @@
    ("Q" :> "q") @@ ("R" :> "r") @@ ("S" :> "s") @@ ("T" :> "t") @@
    ("U" :> "u") @@ ("V" :> "v") @@ ("W" :> "w") @@ ("X" :> "x") @@
    ("Y" :> "y") @@ ("Z" :> "z")

\* str.lower()
Lower(s) ==
    [i \in 1..Len(s) |->
        IF s[i] \in DOMAIN UpperToLower THEN UpperToLower[s[i]] ELSE s[i]]

\* sub in s
Contains(sub, s) ==
    \E i \in 1..(Len(s) - Len(sub) + 1) : SubSeq(s, i, i + Len(sub) - 1) = sub

\* s.endswith(suf)
EndsWith(s, suf) ==
    /\ Len(suf) <= Len(s)
    /\ SubSeq(s, Len(s) - Len(suf) + 1, Len(s)) = suf

Digits == {"0", "1", "2", "3", "4", "5", "6", "7", "8", "9"}

\* str.isdigit(): non-empty and all digits
IsDigit(s) == Len(s) > 0 /\ \A i \in 1..Len(s) : s[i] \in Digits

Whitespace == {" ", "\n", "\t", "\r"}

RECURSIVE LStrip(_)
LStrip(s) ==
    IF Len(s) > 0 /\ s[1] \in Whitespace THEN LStrip(Tail(s)) ELSE s

RECURSIVE RStrip(_)
RStrip(s) ==
    IF Len(s) > 0 /\ s[Len(s)] \in Whitespace
    THEN RStrip(SubSeq(s, 1, Len(s) - 1))
    ELSE s

\* str.strip()
Strip(s) == RStrip(LStrip(s))

\* the largest index of character c in s, 0 when there is none
LastIndexOf(c, s) ==
    LET hits == {i \in 1..Len(s) : s[i] = c}
    IN IF hits = {} THEN 0 ELSE CHOOSE i \in hits : \A j \in hits : j <= i

\* PurePath.suffix: from the last dot of the name, if that is not its first
\* or its last character
Suffix(name) ==
    LET i == LastIndexOf(".", name)
    IN IF i > 1 /\ i < Len(name) THEN SubSeq(name, i, Len(name)) ELSE <<>>

\* PurePath.with_suffix(suffix), on the name
WithSuffix(name, suffix) ==
    SubSeq(name, 1, Len(name) - Len(Suffix(name))) \o suffix

(***************************************************************************)
(* Names of files.                                                         *)
(***************************************************************************)
DOT_ZIP == <<".", "z", "i", "p">>
DOT_7Z == <<".", "7", "z">>
DOT_EXE == <<".", "e", "x", "e">>
EXE_BAK == <<".", "e", "x", "e", ".", "b", "a", "k">>
EXE_UNPACKED ==
    <<".", "e", "x", "e", ".", "u", "n", "p", "a", "c", "k", "e", "d",
      ".", "e", "x", "e">>
DLL_BAK == <<".", "d", "l", "l", ".", "b", "a", "k">>
STEAM_API64 ==
    <<"s", "t", "e", "a", "m", "_", "a", "p", "i", "6", "4", ".", "d", "l", "l">>
STEAM_APPID_TXT ==
    <<"s", "t", "e", "a", "m", "_", "a", "p", "p", "i", "d", ".", "t", "x", "t">>
STEAM_SETTINGS ==
    <<"s", "t", "e", "a", "m", "_", "s", "e", "t", "t", "i", "n", "g", "s">>
CRACK == <<"c", "r", "a", "c", "k">>
ORIGINAL == <<"o", "r", "i", "g", "i", "n", "a", "l">>
SEVENZR_NAME == <<"7", "z", "r", ".", "e", "x", "e">>
EMU_ASSET ==
    <<"e", "m", "u", "-", "w", "i", "n", "-", "r", "e", "l", "e", "a", "s", "e",
      ".", "7", "z">>
WIN == <<"w", "i", "n">>

(***************************************************************************)
(* Release Resolver: get_latest_release_asset_url, after the request.      *)
(* An asset is [name, url]; the url ends in "/" and the name.              *)
(***************************************************************************)
UrlOf(name) == <<"h", "/">> \o name

Asset(name) == [name |-> name, url |-> UrlOf(name)]

\* Path(url).name
UrlName(url) == SubSeq(url, LastIndexOf("/", url) + 1, Len(url))

\* the if of the first loop: the asset is returned for its exact name
ExactHit(asset, exact) == Truthy(exact) /\ asset.name = exact

\* the elif of the first loop: the asset is returned for the filter
FilterHit(asset, filter, exact) ==
    /\ ~ExactHit(asset, exact)
    /\ Truthy(filter)
    /\ Contains(filter, asset.name)
    /\ (EndsWith(asset.name, DOT_ZIP) \/ EndsWith(asset.name, DOT_7Z))

FirstIndex(S) == CHOOSE i \in S : \A j \in S : i <= j

ReleaseAssetUrl(assets, filter, exact) ==
    IF assets = <<>> THEN None
    ELSE
        LET hits == {i \in 1..Len(assets) :
                        \/ ExactHit(assets[i], exact)
                        \/ FilterHit(assets[i], filter, exact)}
            archives == {i \in 1..Len(assets) :
                            \/ EndsWith(assets[i].name, DOT_ZIP)
                            \/ EndsWith(assets[i].name, DOT_7Z)}
        IN  IF hits # {} THEN assets[FirstIndex(hits)].url
            ELSE IF Truthy(filter) /\ ~Truthy(exact) THEN None
            ELSE IF Truthy(exact) THEN None
            ELSE IF archives # {} THEN assets[FirstIndex(archives)].url
            ELSE None

\* a response of the release API: a transport error (ok = FALSE), or the
\* assets of the latest release
TransportError == [ok |-> FALSE, assets |-> <<>>]

Response(assets) == [ok |-> TRUE, assets |-> assets]

GetLatestReleaseAssetUrl(response, filter, exact) ==
    IF ~response.ok THEN None
    ELSE ReleaseAssetUrl(response.assets, filter, exact)

(***************************************************************************)
(* Paths of the game tree: sequences of components, the game path first.   *)
(***************************************************************************)
Name(p) == p[Len(p)]

Parent(p) == SubSeq(p, 1, Len(p) - 1)

RECURSIVE Str(_)
\* str(path): the components joined by the separator
Str(p) ==
    IF Len(p) = 0 THEN <<>>
    ELSE IF Len(p) = 1 THEN p[1]
    ELSE p[1] \o <<"/">> \o Str(Tail(p))

\* path.with_suffix(suffix)
PathWithSuffix(p, suffix) == Parent(p) \o <<WithSuffix(Name(p), suffix)>>

\* p is d or lies under directory d
Under(p, d) == Len(d) <= Len(p) /\ SubSeq(p, 1, Len(d)) = d

File(data) == [kind |-> "file", data |-> data]

Directory == [kind |-> "dir", data |-> <<>>]

IsFile(f, p) == p \in DOMAIN f /\ f[p].kind = "file"

IsDir(f, p) == p \in DOMAIN f /\ f[p].kind = "dir"

Put(f, p, v) == [q \in DOMAIN f \cup {p} |-> IF q = p THEN v ELSE f[q]]

Remove(f, p) == [q \in DOMAIN f \ {p} |-> f[q]]

\* the sequences that list the set S once each: the orders a directory walk
\* (rglob) may produce
Orders(S) ==
    {s \in [1..Cardinality(S) -> S] :
        \A i, j \in 1..Cardinality(S) : i # j => s[i] # s[j]}

RECURSIVE SeqOfSet(_)
\* the set S as a sequence, in some fixed order
SeqOfSet(S) ==
    IF S = {} THEN <<>>
    ELSE LET x == CHOOSE y \in S : TRUE IN <<x>> \o SeqOfSet(S \ {x})

(***************************************************************************)
(* The tool cache: src/variables.py.                                       *)
(***************************************************************************)
TOOLS_REPO == "Detanup01/gbe_fork_tools"
EMU_REPO == "Detanup01/gbe_fork"
STEAMLESS_REPO == "atom0s/Steamless"

EMU_TOOLS_PATH == "gbe_fork_tools"
EMU_EXTRACT_PATH == "gbe_fork_emu"
STEAMLESS_PATH == "steamless"

CONFIG_EMU_EXE ==
    <<EMU_TOOLS_PATH, "generate_emu_config/generate_emu_config.exe">>
EMU_PATH == <<EMU_EXTRACT_PATH, "release/experimental/x64">>
INTERFACES_EMU_EXE ==
    <<EMU_EXTRACT_PATH,
      "release/tools/generate_interfaces/generate_interfaces_x64.exe">>
STEAMLESS_CLI == <<STEAMLESS_PATH, "steamless.cli.exe">>

(***************************************************************************)
(* The releases the hosting API may answer with, and what their archives   *)
(* hold.                                                                   *)
(***************************************************************************)
TOOLS_ASSET == <<"t", "-", "w", "i", "n", ".", "7", "z">>
STEAMLESS_ASSET == <<"S", ".", "z", "i", "p">>
NOTES_ASSET == <<"w", "i", "n", ".", "t", "x", "t">>

Releases(repo) ==
    CASE repo = TOOLS_REPO -> {<<Asset(NOTES_ASSET), Asset(TOOLS_ASSET)>>,
                               <<Asset(NOTES_ASSET)>>}
      [] repo = EMU_REPO -> {<<Asset(EMU_ASSET)>>, <<>>}
      [] repo = STEAMLESS_REPO -> {<<Asset(STEAMLESS_ASSET)>>, <<>>}

\* requests.get(api_url): a transport error, or a release
Responses(repo) == {TransportError} \cup {Response(a) : a \in Releases(repo)}

\* the files an archive holds, relative to the directory it is extracted to
ArchiveFiles(name) ==
    CASE name = TOOLS_ASSET -> {"generate_emu_config/generate_emu_config.exe"}
      [] name = EMU_ASSET ->
            {"release/experimental/x64",
             "release/tools/generate_interfaces/generate_interfaces_x64.exe"}
      [] name = STEAMLESS_ASSET -> {"steamless.cli.exe"}
      [] OTHER -> {}

(***************************************************************************)
(* Downloader: download_file.  A file of DOWNLOAD_DIR is the number of     *)
(* chunks written to it; it is complete with MaxChunks chunks.             *)
(***************************************************************************)
\* how a transfer ends: "http" (the request fails, or raise_for_status
\* raises, before the destination is opened), "cut" (the stream fails after
\* k chunks), "ok"
DlOutcomes ==
    {[kind |-> "http", k |-> 0], [kind |-> "ok", k |-> MaxChunks]}
        \cup {[kind |-> "cut", k |-> k] : k \in 0..(MaxChunks - 1)}

\* DOWNLOAD_DIR after download_file(url, DOWNLOAD_DIR) ended with outcome out:
\* open(dest_path, "wb") truncates, every chunk received is written, and
\* nothing removes the file when iter_content raises
DownloadFile(dl, name, out) ==
    IF out.kind = "http" THEN dl ELSE Put(dl, name, out.k)

\* download_file raised
Raised(out) == out.kind # "ok"

NoDownload == [name |-> <<>>, kind |-> "none", k |-> 0]

DownloadRecord(name, out) == [name |-> name, kind |-> out.kind, k |-> out.k]

Complete(dl, name) == name \in DOMAIN dl /\ dl[name] = MaxChunks

(***************************************************************************)
(* Archive Extractor: extract_archive returns True.  The zip reader needs  *)
(* a complete archive; a .7z needs 7zr.exe, which runs only if complete.   *)
(***************************************************************************)
ExtractArchive(dl, name) ==
    /\ name \in DOMAIN dl
    /\ CASE Suffix(name) = DOT_ZIP -> Complete(dl, name)
         [] Suffix(name) = DOT_7Z ->
                /\ SEVENZR_NAME \in DOMAIN dl
                /\ Complete(dl, SEVENZR_NAME)
                /\ Complete(dl, name)
         [] OTHER -> FALSE

\* TOOLS_DIR after the archive was extracted to directory dest
Extracted(t, dest, name) == t \cup {<<dest, f>> : f \in ArchiveFiles(name)}

(***************************************************************************)
(* shutil.copytree(src, dst, dirs_exist_ok=True).  src is a directory      *)
(* given as relative path -> node.  A directory of src whose destination   *)
(* exists as a file makes os.makedirs raise: that subtree is skipped, the  *)
(* rest is copied, and copytree raises shutil.Error at the end.  A file of *)
(* src whose destination is a directory is copied into that directory      *)
(* (shutil.copy2).                                                         *)
(***************************************************************************)
Blocked(f, src, dst, r) ==
    \E n \in 1..Len(r) :
        /\ SubSeq(r, 1, n) \in DOMAIN src
        /\ src[SubSeq(r, 1, n)].kind = "dir"
        /\ IsFile(f, dst \o SubSeq(r, 1, n))

CopyTarget(f, src, dst, r) ==
    IF src[r].kind = "file" /\ IsDir(f, dst \o r)
    THEN dst \o r \o <<Name(r)>>
    ELSE dst \o r

\* the entries of src that get copied, when only those of `only` are reached
Copied(f, src, dst, only) == {r \in only : ~Blocked(f, src, dst, r)}

CopyTree(f, src, dst, only) ==
    LET done == Copied(f, src, dst, only)
        targets == {CopyTarget(f, src, dst, r) : r \in done}
    IN [q \in DOMAIN f \cup targets |->
            IF q \in targets
            THEN src[CHOOSE r \in done : CopyTarget(f, src, dst, r) = q]
            ELSE f[q]]

CopyTreeRaises(f, src, dst) == \E r \in DOMAIN src : Blocked(f, src, dst, r)

\* the writes of a copytree, for the log
CopyWrites(f, src, dst, only, stage) ==
    LET done == Copied(f, src, dst, only)
    IN SeqOfSet({[path |-> CopyTarget(f, src, dst, r), stage |-> stage] :
                    r \in done})

(***************************************************************************)
(* The game trees of the model, the generator's outputs and the payload.   *)
(***************************************************************************)
GAME == <<"g">>
BIN == <<"b", "i", "n">>
CRACK_DIR == <<"C", "r", "a", "c", "k">>
ORIGINAL_DIR == <<"_", "O", "R", "I", "G", "I", "N", "A", "L">>
A_EXE == <<"a", ".", "e", "x", "e">>

P_EXE == <<GAME, A_EXE>>
P_STALE == <<GAME, WithSuffix(A_EXE, EXE_UNPACKED)>>
P_DLL == <<GAME, STEAM_API64>>
P_DLL_BIN == <<GAME, BIN, STEAM_API64>>
P_DLL_CRACK == <<GAME, CRACK_DIR, STEAM_API64>>
P_DLL_ORIGINAL == <<GAME, BIN, ORIGINAL_DIR, STEAM_API64>>
P_MARKER == <<GAME, STEAM_APPID_TXT>>

AllFiles ==
    (P_EXE :> File(<<"exe">>)) @@
    (P_STALE :> File(<<"stale">>)) @@
    (P_DLL :> File(<<"dll">>)) @@
    (P_DLL_BIN :> File(<<"dll_bin">>)) @@
    (P_DLL_CRACK :> File(<<"dll_crack">>)) @@
    (P_DLL_ORIGINAL :> File(<<"dll_original">>))

VALID_MARKER == <<"4", "8", "0", "\n">>
INVALID_MARKER == <<"a", "b", "c">>

TreeOf(S) == [p \in S |-> AllFiles[p]]

\* the trees: any of the two executables, any of the two targets, with or
\* without the two excluded libraries, and a valid marker file; and a tree
\* of one executable and one target with an invalid marker file, and with none
Trees ==
    {Put(TreeOf(E \cup T \cup X), P_MARKER, File(VALID_MARKER)) :
        E \in SUBSET {P_EXE, P_STALE},
        T \in SUBSET {P_DLL, P_DLL_BIN},
        X \in {{}, {P_DLL_CRACK, P_DLL_ORIGINAL}}}
    \cup {Put(TreeOf({P_EXE, P_DLL}), P_MARKER, File(INVALID_MARKER)),
          TreeOf({P_EXE, P_DLL})}

\* what the user types at the prompt when asked
PROMPT_APPID == <<"7", "3", "0">>

CONFIGS_INI == <<"c", "o", "n", "f", "i", "g", "s", ".", "i", "n", "i">>

\* output/<app_id> as generate_emu_config leaves it: with a steam_settings
\* directory, or with files only
OutputDirs ==
    {(<<STEAM_SETTINGS>> :> Directory) @@
        (<<STEAM_SETTINGS, CONFIGS_INI>> :> File(<<"config">>)),
     (<<CONFIGS_INI>> :> File(<<"config">>))}

STEAMCLIENT64 ==
    <<"s", "t", "e", "a", "m", "c", "l", "i", "e", "n", "t", "6", "4",
      ".", "d", "l", "l">>

\* the directory EMU_PATH of the extracted emulator
Payload ==
    (<<STEAM_API64>> :> File(<<"emu">>)) @@
    (<<STEAMCLIENT64>> :> File(<<"emu_client">>))

NoFiles == [p \in {} |-> Directory]

(***************************************************************************)
(* The pipeline: overwrite_dll.                                            *)
(***************************************************************************)
NoOutcomes == [p \in {} |-> FALSE]

Init ==
    /\ fs \in Trees
    /\ output = NoFiles
    /\ downloads = [n \in {} |-> 0]
    /\ tools = {}
    /\ pc = "idle"
    /\ run = 0
    /\ app_id = None
    /\ exe_list = <<>>
    /\ steam_dlls = <<>>
    /\ idx = 0
    /\ exitCode = -1
    /\ exitAt = ""
    /\ preRun = NoFiles
    /\ preTools = [downloads |-> [n \in {} |-> 0], tools |-> {}]
    /\ log = <<>>
    /\ net = {}
    /\ lastDl = NoDownload
    /\ unpacked = NoOutcomes
    /\ generated = NoOutcomes
    /\ extFail = FALSE
    /\ rq = [assets |-> <<>>, filter |-> None, exact |-> None]
    /\ rres = [done |-> FALSE, url |-> None]

\* sys.exit(code), or an uncaught exception (the interpreter exits with 1)
Exit(code, at) ==
    /\ pc' = "exited"
    /\ exitCode' = code
    /\ exitAt' = at

Goto(next) ==
    /\ pc' = next
    /\ UNCHANGED <<exitCode, exitAt>>

\* the tool is invoked again on the tree and the cache the last run left
StartRun ==
    /\ pc \in {"idle", "exited"}
    /\ run < MaxRuns
    /\ run' = run + 1
    /\ pc' = "appid"
    /\ app_id' = None
    /\ exe_list' = <<>>
    /\ steam_dlls' = <<>>
    /\ idx' = 0
    /\ exitCode' = -1
    /\ exitAt' = ""
    /\ preRun' = fs
    /\ preTools' = [downloads |-> downloads, tools |-> tools]
    /\ log' = <<>>
    /\ net' = {}
    /\ lastDl' = NoDownload
    /\ unpacked' = NoOutcomes
    /\ generated' = NoOutcomes
    /\ extFail' = FALSE
    /\ UNCHANGED <<fs, output, downloads, tools, rq, rres>>

\* find_and_get_appid: the first marker file the walk finds, else the prompt
\* loop, which ends with a number typed or with the input stream's end
FindAppId ==
    /\ pc = "appid"
    /\ LET markers ==
            {p \in DOMAIN fs : IsFile(fs, p) /\ Name(p) = STEAM_APPID_TXT}
       IN \E m \in (IF markers = {} THEN {<<>>} ELSE markers) :
            LET appid == IF m = <<>> THEN <<>> ELSE Strip(fs[m].data)
            IN IF m # <<>> /\ IsDigit(appid)
               THEN app_id' = appid /\ Goto("get_7zr")
               ELSE \/ /\ IsDigit(Strip(PROMPT_APPID))
                       /\ app_id' = Strip(PROMPT_APPID)
                       /\ Goto("get_7zr")
                    \/ /\ Exit(1, "crash:input")
                       /\ UNCHANGED app_id
    /\ UNCHANGED <<fs, output, downloads, tools, run, exe_list, steam_dlls,
                   idx, preRun, preTools, log, net, lastDl, unpacked,
                   generated, extFail,
                   rq, rres>>

SEVENZR_URL ==
    <<"h", "t", "t", "p", "s", ":", "/", "/", "w", "w", "w", ".", "7", "-",
      "z", "i", "p", ".", "o", "r", "g", "/", "a", "/", "7", "z", "r", ".",
      "e", "x", "e">>

\* get_7zr
Get7zr ==
    /\ pc = "get_7zr"
    /\ IF UrlName(SEVENZR_URL) \in DOMAIN downloads
       THEN /\ Goto("get_emu_tools")
            /\ UNCHANGED <<downloads, net, lastDl, extFail>>
       ELSE \E out \in DlOutcomes :
            /\ downloads' = DownloadFile(downloads, UrlName(SEVENZR_URL), out)
            /\ net' = net \cup {<<"7zr", "download">>}
            /\ lastDl' = DownloadRecord(UrlName(SEVENZR_URL), out)
            /\ extFail' = (extFail \/ Raised(out))
            /\ IF Raised(out)
               THEN Exit(1, "crash:download")
               ELSE Goto("get_emu_tools")
    /\ UNCHANGED <<fs, output, tools, run, app_id, exe_list, steam_dlls, idx,
                   preRun, preTools, log, unpacked, generated, rq, rres>>

\* get_emu_tools
GetEmuTools ==
    /\ pc = "get_emu_tools"
    /\ \E response \in Responses(TOOLS_REPO), out \in DlOutcomes :
        LET tools_url == GetLatestReleaseAssetUrl(response, WIN, None)
            tools_archive == UrlName(tools_url)
            cached == tools_archive \in DOMAIN downloads
            dl == IF cached THEN downloads
                  ELSE DownloadFile(downloads, tools_archive, out)
            extracted == ExtractArchive(dl, tools_archive)
            t == IF extracted
                 THEN Extracted(tools, EMU_TOOLS_PATH, tools_archive)
                 ELSE tools
        IN IF ~Truthy(tools_url)
           THEN /\ Exit(1, "no_tools_release")
                /\ net' = net \cup {<<"gbe_fork_tools", "query">>}
                /\ extFail' = TRUE
                /\ UNCHANGED <<downloads, tools, lastDl>>
           ELSE /\ net' = net \cup {<<"gbe_fork_tools", "query">>}
                        \cup (IF cached THEN {}
                              ELSE {<<"gbe_fork_tools", "download">>})
                /\ lastDl' = IF cached THEN lastDl
                             ELSE DownloadRecord(tools_archive, out)
                /\ downloads' = dl
                /\ IF ~cached /\ Raised(out)
                   THEN /\ Exit(1, "crash:download")
                        /\ extFail' = TRUE
                        /\ UNCHANGED tools
                   ELSE /\ tools' = t
                        /\ extFail' = (extFail \/ ~extracted)
                        /\ IF ~extracted
                           THEN Exit(1, "tools_extract_failed")
                           ELSE IF CONFIG_EMU_EXE \notin t
                           THEN Exit(1, "no_generator")
                           ELSE Goto("get_emu")
    /\ UNCHANGED <<fs, output, run, app_id, exe_list, steam_dlls, idx,
                   preRun, preTools, log, unpacked, generated, rq, rres>>

\* get_emu
GetEmu ==
    /\ pc = "get_emu"
    /\ \E response \in Responses(EMU_REPO), out \in DlOutcomes :
        LET emu_url == GetLatestReleaseAssetUrl(response, None, EMU_ASSET)
            emu_archive == UrlName(emu_url)
            dl == DownloadFile(downloads, emu_archive, out)
            extracted == ExtractArchive(dl, emu_archive)
            t == IF extracted
                 THEN Extracted(tools, EMU_EXTRACT_PATH, emu_archive)
                 ELSE tools
        IN IF ~Truthy(emu_url)
           THEN /\ Exit(1, "no_emu_release")
                /\ net' = net \cup {<<"gbe_fork_emu", "query">>}
                /\ extFail' = TRUE
                /\ UNCHANGED <<downloads, tools, lastDl>>
           ELSE /\ net' = net \cup {<<"gbe_fork_emu", "query">>,
                                    <<"gbe_fork_emu", "download">>}
                /\ lastDl' = DownloadRecord(emu_archive, out)
                /\ downloads' = dl
                /\ IF Raised(out)
                   THEN /\ Exit(1, "crash:download")
                        /\ extFail' = TRUE
                        /\ UNCHANGED tools
                   ELSE /\ tools' = t
                        /\ extFail' = (extFail \/ ~extracted)
                        /\ IF ~extracted
                           THEN Exit(1, "emu_extract_failed")
                           ELSE IF EMU_PATH \notin t
                           THEN Exit(1, "no_emu_dll_dir")
                           ELSE Goto("get_steamless")
    /\ UNCHANGED <<fs, output, run, app_id, exe_list, steam_dlls, idx,
                   preRun, preTools, log, unpacked, generated, rq, rres>>

\* get_steamless
GetSteamless ==
    /\ pc = "get_steamless"
    /\ \E response \in Responses(STEAMLESS_REPO), out \in DlOutcomes :
        LET steamless_url == GetLatestReleaseAssetUrl(response, DOT_ZIP, None)
            steamless_archive == UrlName(steamless_url)
            cached == steamless_archive \in DOMAIN downloads
            dl == IF cached THEN downloads
                  ELSE DownloadFile(downloads, steamless_archive, out)
            extracted == ExtractArchive(dl, steamless_archive)
        IN IF ~Truthy(steamless_url)
           THEN /\ Goto("scan_exe")
                /\ net' = net \cup {<<"steamless", "query">>}
                /\ extFail' = TRUE
                /\ UNCHANGED <<downloads, tools, lastDl>>
           ELSE /\ net' = net \cup {<<"steamless", "query">>}
                        \cup (IF cached THEN {}
                              ELSE {<<"steamless", "download">>})
                /\ lastDl' = IF cached THEN lastDl
                             ELSE DownloadRecord(steamless_archive, out)
                /\ downloads' = dl
                /\ IF ~cached /\ Raised(out)
                   THEN /\ Exit(1, "crash:download")
                        /\ extFail' = TRUE
                        /\ UNCHANGED tools
                   ELSE /\ tools' = IF extracted
                                    THEN Extracted(tools, STEAMLESS_PATH,
                                                   steamless_archive)
                                    ELSE tools
                        /\ extFail' = (extFail \/ ~extracted)
                        /\ Goto("scan_exe")
    /\ UNCHANGED <<fs, output, run, app_id, exe_list, steam_dlls, idx,
                   preRun, preTools, log, unpacked, generated, rq, rres>>

(***************************************************************************)
(* Executable Unpacker Stage.                                              *)
(***************************************************************************)
\* game_path.rglob("*.exe"), the files of it
ExeFiles(f) == {p \in DOMAIN f : IsFile(f, p) /\ EndsWith(Name(p), DOT_EXE)}

\* steamless.cli.exe --quiet exe, succeeding: it writes the unpacked build
\* beside the executable
Steamless(f, exe) ==
    Put(f, PathWithSuffix(exe, EXE_UNPACKED), File(<<"unpacked">> \o f[exe].data))

\* the else branch of the loop: copyfile to .exe.bak, then move the unpacked
\* build over the executable
ReplaceExe(f, exe) ==
    LET bak == PathWithSuffix(exe, EXE_BAK)
        unp == PathWithSuffix(exe, EXE_UNPACKED)
        f1 == Put(f, bak, f[exe])
    IN Remove(Put(f1, exe, f1[unp]), unp)

\* a variant that takes an empty exe_list for nothing to do
ScanExeEmptyIsNoOp ==
    /\ pc = "scan_exe"
    /\ IF STEAMLESS_CLI \notin tools
       THEN /\ Exit(1, "no_steamless")
            /\ UNCHANGED <<exe_list, idx>>
       ELSE IF ExeFiles(fs) = {}
       THEN /\ Goto("locate")
            /\ UNCHANGED <<exe_list, idx>>
       ELSE /\ exe_list' \in Orders(ExeFiles(fs))
            /\ idx' = 1
            /\ Goto("decrypt")
    /\ UNCHANGED <<fs, output, downloads, tools, run, app_id, steam_dlls,
                   preRun, preTools, log, net, lastDl, unpacked,
                   generated, extFail,
                   rq, rres>>

\* the check for steamless.cli.exe and the collection of exe_list
ScanExe ==
    /\ pc = "scan_exe"
    /\ IF STEAMLESS_CLI \notin tools
       THEN /\ Exit(1, "no_steamless")
            /\ UNCHANGED <<exe_list, idx>>
       ELSE IF ExeFiles(fs) = {}
       THEN /\ Exit(1, "no_exe")
            /\ UNCHANGED <<exe_list, idx>>
       ELSE /\ exe_list' \in Orders(ExeFiles(fs))
            /\ idx' = 1
            /\ Goto("decrypt")
    /\ UNCHANGED <<fs, output, downloads, tools, run, app_id, steam_dlls,
                   preRun, preTools, log, net, lastDl, unpacked,
                   generated, extFail,
                   rq, rres>>

\* one pass of the loop over exe_list; the tool fails on a file that is gone
Decrypt ==
    /\ pc = "decrypt"
    /\ idx <= Len(exe_list)
    /\ LET exe == exe_list[idx]
       IN \/ /\ IsFile(fs, exe)
             /\ fs' = ReplaceExe(Steamless(fs, exe), exe)
             /\ log' = log \o
                    <<[path |-> PathWithSuffix(exe, EXE_UNPACKED),
                       stage |-> "unpack_tool"],
                      [path |-> PathWithSuffix(exe, EXE_BAK),
                       stage |-> "exe_backup"],
                      [path |-> exe, stage |-> "exe_replace"]>>
             /\ unpacked' = Put(unpacked, exe, TRUE)
             /\ UNCHANGED extFail
          \/ /\ unpacked' = Put(unpacked, exe, FALSE)
             /\ extFail' = TRUE
             /\ UNCHANGED <<fs, log>>
    /\ idx' = idx + 1
    /\ IF idx = Len(exe_list) THEN Goto("locate") ELSE Goto("decrypt")
    /\ UNCHANGED <<output, downloads, tools, run, app_id, exe_list,
                   steam_dlls, preRun, preTools, net, lastDl, generated, rq, rres>>

(***************************************************************************)
(* Target Locator.                                                         *)
(***************************************************************************)
\* a variant that compares without lower()
ExcludedCaseSensitive(p) ==
    \/ Contains(CRACK, Str(p))
    \/ Contains(ORIGINAL, Str(p))

\* "crack" in str(steam_dll).lower() or "original" in str(steam_dll).lower()
Excluded(p) ==
    \/ Contains(CRACK, Lower(Str(p)))
    \/ Contains(ORIGINAL, Lower(Str(p)))

\* the paths the loop appends to steam_dlls
Targets(f) ==
    {p \in DOMAIN f : Name(p) = STEAM_API64 /\ ~Excluded(p) /\ IsFile(f, p)}

\* a variant that keeps a .dll.bak that is already there
BackupTargetsKeepExisting(f, S) ==
    LET baks == {PathWithSuffix(t, DLL_BAK) : t \in S} \ DOMAIN f
    IN [q \in DOMAIN f \cup baks |->
            IF q \in baks
            THEN f[CHOOSE t \in S : PathWithSuffix(t, DLL_BAK) = q]
            ELSE f[q]]

\* shutil.copy(steam_dll, steam_dll.with_suffix(".dll.bak")) for each target
BackupTargets(f, S) ==
    LET baks == {PathWithSuffix(t, DLL_BAK) : t \in S}
    IN [q \in DOMAIN f \cup baks |->
            IF q \in baks
            THEN f[CHOOSE t \in S : PathWithSuffix(t, DLL_BAK) = q]
            ELSE f[q]]

\* a variant without the check for an empty steam_dlls
LocateWithoutCheck ==
    /\ pc = "locate"
    /\ \E found \in Orders(Targets(fs)) :
        /\ steam_dlls' = found
        /\ fs' = BackupTargets(fs, Targets(fs))
        /\ log' = log \o [i \in 1..Len(found) |->
                            [path |-> PathWithSuffix(found[i], DLL_BAK),
                             stage |-> "backup"]]
        /\ Goto("gen_config")
    /\ UNCHANGED <<output, downloads, tools, run, app_id, exe_list, idx,
                   preRun, preTools, net, lastDl, unpacked, generated, extFail, rq, rres>>

\* a variant that collects the targets and copies none
LocateWithoutBackup ==
    /\ pc = "locate"
    /\ \E found \in Orders(Targets(fs)) :
        /\ steam_dlls' = found
        /\ IF found = <<>>
           THEN Exit(1, "no_dll")
           ELSE Goto("gen_config")
    /\ UNCHANGED <<fs, log, output, downloads, tools, run, app_id, exe_list,
                   idx, preRun, preTools, net, lastDl, unpacked, generated, extFail, rq,
                   rres>>

\* the loop over rglob("steam_api64.dll") and the check that follows it
Locate ==
    /\ pc = "locate"
    /\ \E found \in Orders(Targets(fs)) :
        /\ steam_dlls' = found
        /\ fs' = BackupTargets(fs, Targets(fs))
        /\ log' = log \o [i \in 1..Len(found) |->
                            [path |-> PathWithSuffix(found[i], DLL_BAK),
                             stage |-> "backup"]]
        /\ IF found = <<>>
           THEN Exit(1, "no_dll")
           ELSE Goto("gen_config")
    /\ UNCHANGED <<output, downloads, tools, run, app_id, exe_list, idx,
                   preRun, preTools, net, lastDl, unpacked, generated, extFail, rq, rres>>

(***************************************************************************)
(* Config generation and the copy of its output.                           *)
(***************************************************************************)
\* run_process([CONFIG_EMU_EXE, "-cve", "-token", app_id]): it fails, and the
\* exception ends the run, or it leaves output/<app_id>
GenConfig ==
    /\ pc = "gen_config"
    /\ \/ /\ Exit(1, "crash:gen_config")
          /\ extFail' = TRUE
          /\ UNCHANGED <<output, idx>>
       \/ \E dir \in OutputDirs :
            /\ output' = Put(output, app_id, dir)
            /\ idx' = 1
            /\ Goto("copy_config")
            /\ UNCHANGED extFail
    /\ UNCHANGED <<fs, downloads, tools, run, app_id, exe_list, steam_dlls,
                   preRun, preTools, log, net, lastDl, unpacked, generated, rq, rres>>

\* one pass of the loop that copies output/<app_id> into a target's directory
CopyConfig ==
    /\ pc = "copy_config"
    /\ idx <= Len(steam_dlls)
    /\ LET src == output[app_id]
           dst == Parent(steam_dlls[idx])
       IN /\ fs' = CopyTree(fs, src, dst, DOMAIN src)
          /\ log' = log \o CopyWrites(fs, src, dst, DOMAIN src, "config")
          /\ IF CopyTreeRaises(fs, src, dst)
             THEN /\ Exit(1, "crash:copy_config")
                  /\ UNCHANGED idx
             ELSE IF idx = Len(steam_dlls)
             THEN /\ idx' = 1
                  /\ Goto("gen_interfaces")
             ELSE /\ idx' = idx + 1
                  /\ Goto("copy_config")
    /\ UNCHANGED <<output, downloads, tools, run, app_id, exe_list,
                   steam_dlls, preRun, preTools, net, lastDl, unpacked, generated,
                   extFail, rq, rres>>

(***************************************************************************)
(* Interface generation and deployment.                                    *)
(***************************************************************************)
\* generate_interfaces_x64.exe steam_dll, succeeding: steam_interfaces.txt
Descriptor(f, steam_dll) == File(<<"interfaces">> \o f[steam_dll].data)

\* what a failing copy of the payload has written: copytree copies what it
\* can and raises at the end; here the library itself cannot be overwritten
PartialPayloads == {DOMAIN Payload \ {<<STEAM_API64>>}}

\* a variant in which the tool's failure is not caught and ends the run
InterfacesFailedIsFatal(next) ==
    /\ Exit(1, "crash:interfaces")
    /\ UNCHANGED idx

\* the except branch of the loop: the failure is logged, the loop continues
\* with the next target
InterfacesFailed(next) ==
    /\ idx' = idx + 1
    /\ next

\* one pass of the loop over steam_dlls
GenInterfaces ==
    /\ pc = "gen_interfaces"
    /\ idx <= Len(steam_dlls)
    /\ LET steam_dll == steam_dlls[idx]
           dir == Parent(steam_dll)
           settings == dir \o <<STEAM_SETTINGS>>
           next == IF idx = Len(steam_dlls)
                   THEN Exit(0, "finished")
                   ELSE Goto("gen_interfaces")
       IN \/ \* run_process raises: log and continue
             /\ generated' = Put(generated, steam_dll, FALSE)
             /\ extFail' = TRUE
             /\ InterfacesFailed(next)
             /\ UNCHANGED <<fs, log>>
          \/ \* the descriptor cannot be written over a directory
             /\ INTERFACES_EMU_EXE \in tools
             /\ IsDir(fs, settings)
             /\ generated' = Put(generated, steam_dll, TRUE)
             /\ Exit(1, "crash:descriptor")
             /\ UNCHANGED <<fs, log, idx, extFail>>
          \/ \* the descriptor is placed, the payload is copied
             /\ INTERFACES_EMU_EXE \in tools
             /\ ~IsDir(fs, settings)
             /\ generated' = Put(generated, steam_dll, TRUE)
             /\ LET f1 == Put(fs, settings, Descriptor(fs, steam_dll))
                    placed == <<[path |-> settings, stage |-> "descriptor"]>>
                IN \/ /\ ~CopyTreeRaises(f1, Payload, dir)
                      /\ fs' = CopyTree(f1, Payload, dir, DOMAIN Payload)
                      /\ log' = log \o placed \o
                            CopyWrites(f1, Payload, dir, DOMAIN Payload,
                                       "payload")
                      /\ idx' = idx + 1
                      /\ next
                      /\ UNCHANGED extFail
                   \/ \* copy_contents returns False
                      \E part \in PartialPayloads :
                        /\ fs' = CopyTree(f1, Payload, dir, part)
                        /\ log' = log \o placed \o
                              CopyWrites(f1, Payload, dir, part, "payload")
                        /\ extFail' = TRUE
                        /\ Exit(1, "deploy_failed")
                        /\ UNCHANGED idx
    /\ UNCHANGED <<output, downloads, tools, run, app_id, exe_list,
                   steam_dlls, preRun, preTools, net, lastDl, unpacked,
                   rq, rres>>

Next ==
    \/ StartRun
    \/ FindAppId
    \/ Get7zr
    \/ GetEmuTools
    \/ GetEmu
    \/ GetSteamless
    \/ ScanExe
    \/ Decrypt
    \/ Locate
    \/ GenConfig
    \/ CopyConfig
    \/ GenInterfaces

Spec == Init /\ [][Next]_vars

(***************************************************************************)
(* The resolver on its own: every asset list, filter and exact name of the *)
(* sets below.                                                             *)
(***************************************************************************)
AssetNames == {EMU_ASSET, TOOLS_ASSET, STEAMLESS_ASSET, NOTES_ASSET}

AssetLists ==
    UNION {[1..n -> {Asset(a) : a \in AssetNames}] : n \in 0..MaxAssets}

Filters == {None, WIN, DOT_ZIP}

ExactNames == {None, EMU_ASSET, TOOLS_ASSET}

ResolverInit ==
    /\ fs = NoFiles
    /\ output = NoFiles
    /\ downloads = [n \in {} |-> 0]
    /\ tools = {}
    /\ pc = "resolver"
    /\ run = 0
    /\ app_id = None
    /\ exe_list = <<>>
    /\ steam_dlls = <<>>
    /\ idx = 0
    /\ exitCode = -1
    /\ exitAt = ""
    /\ preRun = NoFiles
    /\ preTools = [downloads |-> [n \in {} |-> 0], tools |-> {}]
    /\ log = <<>>
    /\ net = {}
    /\ lastDl = NoDownload
    /\ unpacked = NoOutcomes
    /\ generated = NoOutcomes
    /\ extFail = FALSE
    /\ rq \in [assets : AssetLists, filter : Filters, exact : ExactNames]
    /\ rres = [done |-> FALSE, url |-> None]

Resolve ==
    /\ pc = "resolver"
    /\ ~rres.done
    /\ rres' = [done |-> TRUE,
                url |-> GetLatestReleaseAssetUrl(Response(rq.assets),
                                                 rq.filter, rq.exact)]
    /\ UNCHANGED <<rq, fs, output, downloads, tools, pc, run, app_id,
                   exe_list, steam_dlls, idx, exitCode, exitAt, preRun,
                   preTools, log, net, lastDl, unpacked, generated, extFail>>

SpecResolver == ResolverInit /\ [][Resolve]_vars

(***************************************************************************)
(* The claims.                                                             *)
(***************************************************************************)
Range(s) == {s[i] : i \in 1..Len(s)}

\* the run has carried out the target locator's loop
Located == steam_dlls # <<>> \/ (pc = "exited" /\ exitAt = "no_dll")

\* C1: at the end of the unpacker stage every executable of the tree still
\* has its pre-run content on disk: as the live file when the unpacking tool
\* failed on it, as its .exe.bak sibling when the tool succeeded.
C1_OriginalNeverLost ==
    pc = "locate" =>
        \A exe \in ExeFiles(preRun) :
            IF exe \in DOMAIN unpacked /\ unpacked[exe]
            THEN /\ IsFile(fs, PathWithSuffix(exe, EXE_BAK))
                 /\ fs[PathWithSuffix(exe, EXE_BAK)] = preRun[exe]
            ELSE /\ IsFile(fs, exe)
                 /\ fs[exe] = preRun[exe]

\* C2: when steamless.cli.exe is absent after provisioning, the run is not
\* ended for it: the decrypt stage is skipped and the run goes on.
C2_SteamlessOptional ==
    (STEAMLESS_CLI \notin tools /\ pc = "exited") => exitAt # "no_steamless"

\* the tree of C3: no executable, one qualifying target, a valid marker file
C3_Tree ==
    /\ run >= 1
    /\ ExeFiles(preRun) = {}
    /\ Cardinality(Targets(preRun)) = 1
    /\ IsFile(preRun, P_MARKER)
    /\ IsDigit(Strip(preRun[P_MARKER].data))

\* C3 as claimed: on such a tree, with no failure of a tool or stage, the run
\* ends with exit code 0 and the target backed up.
C3_NoExeIsNoOp ==
    (C3_Tree /\ ~extFail /\ pc = "exited") =>
        /\ exitCode = 0
        /\ \A t \in Targets(preRun) : IsFile(fs, PathWithSuffix(t, DLL_BAK))

\* C3 as amended: on a tree with no executable the run never gets to the
\* decrypt loop or past it; it ends with exit code 1, at the empty executable
\* list unless a tool failed or the prompt ended first, and it has written
\* nothing into the tree.
C3_NoExeIsFatal ==
    (run >= 1 /\ ExeFiles(preRun) = {}) =>
        /\ pc \in {"appid", "get_7zr", "get_emu_tools", "get_emu",
                   "get_steamless", "scan_exe", "exited"}
        /\ fs = preRun
        /\ log = <<>>
        /\ steam_dlls = <<>>
        /\ pc = "exited" => exitCode = 1
        /\ (pc = "exited" /\ ~extFail /\ exitAt # "crash:input")
                => exitAt = "no_exe"

C3_Witness ==
    C3_Tree /\ ~extFail /\ pc = "exited" /\ exitAt = "no_exe" /\ exitCode = 1

\* the files named steam_api64.dll
DllNamed(f) == {p \in DOMAIN f : Name(p) = STEAM_API64}

DeployStages == {"config", "descriptor", "payload"}

\* C4 as claimed: with no file named steam_api64.dll the run ends with exit
\* code 1, and when it ends at target discovery no backup file has been
\* created anywhere in the tree and nothing has been deployed.
C4_NoTargetNoBackups ==
    (run >= 1 /\ DllNamed(preRun) = {} /\ pc = "exited") =>
        /\ exitCode = 1
        /\ exitAt = "no_dll" =>
            \A i \in 1..Len(log) :
                /\ Suffix(Name(log[i].path)) # <<".", "b", "a", "k">>
                /\ log[i].stage \notin DeployStages

\* C4 as amended: with no file named steam_api64.dll the run never gets past
\* target discovery and ends with exit code 1; no .dll.bak is created and
\* nothing is deployed; the writes of the run are those of the unpacker stage
\* (.exe.bak copies and unpacked executables).
C4_NoTargetNoDllBackup ==
    (run >= 1 /\ DllNamed(preRun) = {}) =>
        /\ pc \notin {"gen_config", "copy_config", "gen_interfaces"}
        /\ steam_dlls = <<>>
        /\ pc = "exited" => exitCode = 1
        /\ \A i \in 1..Len(log) :
                log[i].stage \in {"unpack_tool", "exe_backup", "exe_replace"}
        /\ \A p \in DOMAIN fs :
                EndsWith(Name(p), DLL_BAK) => p \in DOMAIN preRun

C4_Witness ==
    /\ DllNamed(preRun) = {}
    /\ pc = "exited"
    /\ exitAt = "no_dll"
    /\ \E i \in 1..Len(log) : log[i].stage = "exe_backup"

\* C5: a file is a target iff its name is steam_api64.dll and its lowercased
\* path contains neither "crack" nor "original"; a steam_api64.dll that is
\* excluded is not backed up and keeps its content.
C5_TargetSelection ==
    /\ Located =>
        \A p \in DOMAIN fs :
            IsFile(fs, p) =>
                (p \in Range(steam_dlls) <=>
                    /\ Name(p) = STEAM_API64
                    /\ \A i \in 1..(Len(Str(p)) - 4) :
                        SubSeq(Lower(Str(p)), i, i + 4) # CRACK
                    /\ \A i \in 1..(Len(Str(p)) - 7) :
                        SubSeq(Lower(Str(p)), i, i + 7) # ORIGINAL)
    /\ \A p \in {P_DLL_CRACK, P_DLL_ORIGINAL} :
            p \in DOMAIN preRun =>
                /\ p \notin Range(steam_dlls)
                /\ IsFile(fs, p)
                /\ fs[p] = preRun[p]
                /\ PathWithSuffix(p, DLL_BAK) \notin DOMAIN fs
                /\ \A i \in 1..Len(log) :
                        log[i].path \notin {p, PathWithSuffix(p, DLL_BAK)}

C5_Witness ==
    /\ pc = "exited"
    /\ exitAt = "finished"
    /\ {P_DLL_CRACK, P_DLL_ORIGINAL} \subseteq DOMAIN preRun
    /\ Range(steam_dlls) = {P_DLL, P_DLL_BIN}
    /\ fs[P_DLL].data = <<"emu">>
    /\ fs[P_DLL_CRACK].data = <<"dll_crack">>

\* C6: in every run, and so in the second, each target's .bak holds the
\* content the target had when that run started.
C6_BackupOneStepBack ==
    \A t \in Range(steam_dlls) :
        /\ IsFile(fs, PathWithSuffix(t, DLL_BAK))
        /\ fs[PathWithSuffix(t, DLL_BAK)] = preRun[t]

\* a second run has ended whose backup is the first run's payload, not the
\* pristine file
C6_Witness ==
    /\ run = 2
    /\ pc = "exited"
    /\ exitAt = "finished"
    /\ P_DLL \in Range(steam_dlls)
    /\ fs[PathWithSuffix(P_DLL, DLL_BAK)].data = <<"emu">>

\* the tool was fully installed when the run started
Installed(tool) ==
    CASE tool = "7zr" -> Complete(preTools.downloads, SEVENZR_NAME)
      [] tool = "gbe_fork_tools" ->
            /\ CONFIG_EMU_EXE \in preTools.tools
            /\ Complete(preTools.downloads, TOOLS_ASSET)
      [] tool = "gbe_fork_emu" ->
            /\ {EMU_PATH, INTERFACES_EMU_EXE} \subseteq preTools.tools
            /\ Complete(preTools.downloads, EMU_ASSET)
      [] tool = "steamless" ->
            /\ STEAMLESS_CLI \in preTools.tools
            /\ Complete(preTools.downloads, STEAMLESS_ASSET)

\* C7: a run makes no network call, neither a release query nor a download,
\* for a tool that was fully installed when it started.
C7_NoNetworkWhenInstalled == \A call \in net : ~Installed(call[1])

\* C8: when download_file has raised after opening its destination, no file
\* is left at the destination.
C8_NoPartialFile ==
    (pc = "exited" /\ exitAt = "crash:download" /\ lastDl.kind = "cut")
        => lastDl.name \notin DOMAIN downloads

\* C9: with an exact name that no asset has, the resolver returns None,
\* whatever the filter.
C9_ExactNameNotFound ==
    (/\ rres.done
     /\ Truthy(rq.exact)
     /\ \A i \in 1..Len(rq.assets) : rq.assets[i].name # rq.exact)
        => rres.url = None

\* a write that is not the .bak copy of a target
OtherWrite(i) == log[i].stage # "backup"

BackedUpBefore(t, i) ==
    \E j \in 1..(i - 1) :
        /\ log[j].stage = "backup"
        /\ log[j].path = PathWithSuffix(t, DLL_BAK)

\* C10 as claimed: every other write of the run into a target's directory
\* comes after the target's .bak copy.
C10_BackupBeforeAnyWrite ==
    \A t \in Range(steam_dlls) :
        \A i \in 1..Len(log) :
            (OtherWrite(i) /\ Under(log[i].path, Parent(t)))
                => BackedUpBefore(t, i)

\* C10 as amended: every write of the config copy, of the descriptor and of
\* the payload into a target's directory comes after the target's .bak copy
\* (the unpacker stage may write into the directory before it).
C10_BackupBeforeDeployment ==
    /\ \A i \in 1..Len(log) :
            log[i].stage \in DeployStages =>
                \E t \in Range(steam_dlls) : Under(log[i].path, Parent(t))
    /\ \A t \in Range(steam_dlls) :
        \A i \in 1..Len(log) :
            (log[i].stage \in DeployStages /\ Under(log[i].path, Parent(t)))
                => BackedUpBefore(t, i)

C10_Witness ==
    /\ P_DLL_BIN \in Range(steam_dlls)
    /\ \E i, j, k \in 1..Len(log) :
        /\ log[i].stage = "config" /\ Under(log[i].path, Parent(P_DLL_BIN))
        /\ log[j].stage = "descriptor" /\ Under(log[j].path, Parent(P_DLL_BIN))
        /\ log[k] = [path |-> P_DLL_BIN, stage |-> "payload"]

\* the settings directory of a target
SettingsOf(t) == Parent(t) \o <<STEAM_SETTINGS>>

\* C11: once the interfaces tool has succeeded for a target, the descriptor
\* is a file inside the target's steam_settings, which is a directory, and
\* every write of the payload into the target's directory comes after the
\* write of the descriptor.
C11_DescriptorInsideSettings ==
    \A t \in DOMAIN generated :
        generated[t] =>
            /\ IsDir(fs, SettingsOf(t))
            /\ \E i \in 1..Len(log) :
                /\ log[i].stage = "descriptor"
                /\ Parent(log[i].path) = SettingsOf(t)
                /\ IsFile(fs, log[i].path)
                /\ \A k \in 1..Len(log) :
                    (log[k].stage = "payload"
                        /\ Under(log[k].path, Parent(t))) => i < k

\* the interfaces tool was run on the i-th target and failed
ToolFailedAt(i) ==
    /\ steam_dlls[i] \in DOMAIN generated
    /\ ~generated[steam_dlls[i]]

\* the interfaces tool was run on the j-th target and succeeded
ToolSucceededAt(j) ==
    /\ steam_dlls[j] \in DOMAIN generated
    /\ generated[steam_dlls[j]]

\* the descriptor of the j-th target was placed and then the payload's
\* library replaced the target
DeployedAt(j) ==
    \E a, b \in 1..Len(log) :
        /\ a < b
        /\ log[a] = [path |-> SettingsOf(steam_dlls[j]),
                     stage |-> "descriptor"]
        /\ log[b] = [path |-> steam_dlls[j], stage |-> "payload"]

\* the run ended in the placement or the deployment of the j-th target
EndedAt(j) ==
    /\ pc = "exited"
    /\ exitAt \in {"crash:descriptor", "deploy_failed"}
    /\ idx = j

\* C12: a failure of the interfaces tool for a target does not end the run:
\* the loop moves on to the next target, a run that ends with an error after
\* it ends in the placement or deployment of a target whose own tool run
\* succeeded, a run that finishes has run the tool for every later target,
\* and every later target whose tool run succeeded has its descriptor placed
\* and the payload deployed, unless that target's own placement or
\* deployment ended the run.
C12_FailureIsolated ==
    \A i \in 1..Len(steam_dlls) :
        ToolFailedAt(i) =>
            /\ idx > i
            /\ (pc = "exited" /\ exitCode # 0) =>
                    (idx <= Len(steam_dlls) /\ ToolSucceededAt(idx))
            /\ \A j \in (i + 1)..Len(steam_dlls) :
                /\ exitAt = "finished" => steam_dlls[j] \in DOMAIN generated
                /\ ToolSucceededAt(j) => (DeployedAt(j) \/ EndedAt(j))

C12_Witness ==
    /\ pc = "exited"
    /\ exitAt = "finished"
    /\ exitCode = 0
    /\ Len(steam_dlls) = 2
    /\ ToolFailedAt(1)
    /\ ToolSucceededAt(2)
    /\ DeployedAt(2)

====
